---- MODULE Spec2Model ----
(***************************************************************************)
(* Model of the multi-agent research pipeline notebook:                    *)
(*   MultiAgentPipeline (_load_or_build_faiss, _get_context, _propose,     *)
(*   _validate, _analyze_gaps, run), MultiAgentEvaluator                    *)
(*   (evaluate_hypotheses), parse_feasibility_scores, run_experiment and   *)
(*   summarize_scores.                                                     *)
(*                                                                         *)
(* Texts are sequences of one-character tokens.  The token "R" stands for  *)
(* the literal "Rate feasibility" of the first regular expression (a run   *)
(* of letters: a word character at both of its ends).  Python's None is    *)
(* the empty sequence and a present value v is <<v>>.  Real numbers are    *)
(* exact rationals [num, den]; similarity scores are in tenths.            *)
(***************************************************************************)
EXTENDS Integers, Sequences, FiniteSets, TLC

(***************************************************************************)
(* Bounds of the model                                                     *)
(***************************************************************************)
MaxTextLen == 4
MaxScores == 3
MaxEvalChunks == 2
MaxEvalK == 2
MaxEvalHyps == 2
MaxEvalCalls == 2
MaxRuns == 2
MaxK == 3
MaxHyp == 2
MaxRawLen == 4
MaxChunks == 3
MaxH == 4

None == << >>
Some(v) == <<v>>

Max(S) == CHOOSE x \in S : \A y \in S : y <= x
Min(S) == CHOOSE x \in S : \A y \in S : x <= y

RECURSIVE SeqSum(_)
SeqSum(s) == IF s = << >> THEN 0 ELSE Head(s) + SeqSum(Tail(s))

SeqsUpTo(S, n) == UNION {[1..m -> S] : m \in 0..n}

(***************************************************************************)
(* parse_feasibility_scores: the two regular expressions                   *)
(***************************************************************************)
Alphabet == {"1", "0", "7", ")", " ", "\n", "R", ":", "x"}

\* \w of Python's re: digits, letters (the label token is letters at both ends)
IsWord(c) == c \in {"0", "1", "2", "3", "4", "5", "6", "7", "8", "9", "x", "R"}
\* \s
IsSpace(c) == c \in {" ", "\n"}
\* [:\-\s]
IsSep(c) == c \in {":", "-"} \/ IsSpace(c)
\* [1-9]
DigitVal(c) ==
  CASE c = "1" -> 1 [] c = "2" -> 2 [] c = "3" -> 3 [] c = "4" -> 4
    [] c = "5" -> 5 [] c = "6" -> 6 [] c = "7" -> 7 [] c = "8" -> 8
    [] c = "9" -> 9 [] OTHER -> 0

WordAt(text, p) == p >= 1 /\ p <= Len(text) /\ IsWord(text[p])
CharIs(text, p, c) == p >= 1 /\ p <= Len(text) /\ text[p] = c

\* \b between the characters at p-1 and p
WordBoundary(text, p) == WordAt(text, p - 1) # WordAt(text, p)

\* ^ under re.MULTILINE
LineStart(text, p) == p = 1 \/ CharIs(text, p - 1, "\n")

\* the positions a starred class can stop at when it starts at p
SpaceRuns(text, p) ==
  {q \in p..(Len(text) + 1) : \A j \in p..(q - 1) : IsSpace(text[j])}
SepRuns(text, p) ==
  {q \in p..(Len(text) + 1) : \A j \in p..(q - 1) : IsSep(text[j])}

\* the group (\b(?:[1-9]|10)\b) tried at p: the alternatives in order
NumAtNoTrailingBoundary(text, p) ==
  IF ~WordBoundary(text, p) THEN None
  ELSE IF p <= Len(text) /\ DigitVal(text[p]) # 0 THEN Some(DigitVal(text[p]))
  ELSE None

NumAt(text, p) ==
  IF ~WordBoundary(text, p) THEN None
  ELSE IF p <= Len(text) /\ DigitVal(text[p]) # 0 /\ WordBoundary(text, p + 1)
         THEN Some(DigitVal(text[p]))
  ELSE IF CharIs(text, p, "1") /\ CharIs(text, p + 1, "0")
            /\ WordBoundary(text, p + 2)
         THEN Some(10)
  ELSE None

\* A greedy star gives back characters until the rest matches: the longest run
\* after which the rest matches is the one taken.

\* [:\-\s]*(\b(?:[1-9]|10)\b) after the label
AfterLabel(text, p) ==
  LET ok == {q \in SepRuns(text, p) : NumAt(text, q) # None}
  IN  IF ok = {} THEN None ELSE NumAt(text, Max(ok))

\* (?:Rate feasibility[:\-\s]*)?(\b(?:[1-9]|10)\b): the group first, then without
LabelOpt(text, p) ==
  IF CharIs(text, p, "R") /\ AfterLabel(text, p + 1) # None
    THEN AfterLabel(text, p + 1)
    ELSE NumAt(text, p)

\* 1\)\s*...
MarkerAt(text, p) ==
  IF CharIs(text, p, "1") /\ CharIs(text, p + 1, ")")
    THEN LET ok == {q \in SpaceRuns(text, p + 2) : LabelOpt(text, q) # None}
         IN  IF ok = {} THEN None ELSE LabelOpt(text, Max(ok))
    ELSE None

\* the first pattern anchored at s: ^\s*...
TierAAt(text, s) ==
  IF LineStart(text, s)
    THEN LET ok == {q \in SpaceRuns(text, s) : MarkerAt(text, q) # None}
         IN  IF ok = {} THEN None ELSE MarkerAt(text, Max(ok))
    ELSE None

\* re.search: the leftmost start at which the pattern matches
SearchTierA(text) ==
  LET ok == {s \in 1..(Len(text) + 1) : TierAAt(text, s) # None}
  IN  IF ok = {} THEN None ELSE TierAAt(text, Min(ok))

SearchFallback(text) ==
  LET ok == {s \in 1..(Len(text) + 1) : NumAt(text, s) # None}
  IN  IF ok = {} THEN None ELSE NumAt(text, Min(ok))

\* one iteration of the loop of parse_feasibility_scores
ParseOne(text) ==
  LET m == SearchTierA(text)
  IN  IF m = None THEN SearchFallback(text) ELSE m

parse_feasibility_scores(validations) ==
  [i \in 1..Len(validations) |-> ParseOne(validations[i])]

(***************************************************************************)
(* summarize_scores                                                        *)
(***************************************************************************)
\* [s for s in scores if s is not None]
RECURSIVE Clean(_)
Clean(scores) ==
  IF scores = << >> THEN << >>
  ELSE IF Head(scores) = None THEN Clean(Tail(scores))
  ELSE <<Head(scores)[1]>> \o Clean(Tail(scores))

SeqRange(s) == {s[i] : i \in 1..Len(s)}
SumSquares(s) == SeqSum([i \in 1..Len(s) |-> s[i] * s[i]])

\* statistics.mean: the exact quotient sum / n
Mean(clean) == [num |-> SeqSum(clean), den |-> Len(clean)]

\* statistics.stdev: raises StatisticsError below two data points; otherwise
\* the square root of the sample variance (n*sum(x^2) - sum(x)^2) / (n*(n-1)),
\* kept here as its square
Stdev(clean) ==
  IF Len(clean) < 2
    THEN [raised |-> "StatisticsError", sq |-> [num |-> 0, den |-> 1]]
    ELSE [raised |-> "no",
          sq |-> [num |-> Len(clean) * SumSquares(clean)
                            - SeqSum(clean) * SeqSum(clean),
                  den |-> Len(clean) * (Len(clean) - 1)]]

\* statistics.stdev(clean) if len(clean) > 1 else 0.0
StdFieldUnguarded(clean) == Stdev(clean)

StdField(clean) ==
  IF Len(clean) > 1 THEN Stdev(clean)
  ELSE [raised |-> "no", sq |-> [num |-> 0, den |-> 1]]

summarize_scores(scores) ==
  LET clean == Clean(scores)
  IN  IF clean = << >>
        THEN [raised |-> "no", min |-> None, max |-> None,
              mean |-> None, std |-> None]
        ELSE [raised |-> StdField(clean).raised,
              min |-> Some(Min(SeqRange(clean))),
              max |-> Some(Max(SeqRange(clean))),
              mean |-> Some(Mean(clean)),
              std |-> Some(StdField(clean).sq)]

(***************************************************************************)
(* MultiAgentEvaluator.evaluate_hypotheses                                 *)
(***************************************************************************)
\* similarity_search_with_score(hypo, k): the first k entries of the index's
\* ranking for the query (all of them when it holds fewer)
SimilaritySearch(index, hypo, k) ==
  SubSeq(index[hypo], 1, IF k < Len(index[hypo]) THEN k ELSE Len(index[hypo]))

\* float(np.mean(scores)) if scores else 0.0
AvgSim(scores) ==
  IF scores = << >> THEN [num |-> 0, den |-> 1]
  ELSE [num |-> SeqSum(scores), den |-> Len(scores)]

\* avg_sim >= support_threshold  (threshold in tenths, like the scores)
SupportedStrict(avg, thr) == avg.num > thr * avg.den

Supported(avg, thr) == avg.num >= thr * avg.den

EvalRecord(index, hypo, k, thr) ==
  LET scores == SimilaritySearch(index, hypo, k)
  IN  [avg_similarity |-> AvgSim(scores),
       top_k_scores |-> scores,
       supported |-> Supported(AvgSim(scores), thr)]

\* the loop over hypotheses: results[hypo] = {...}, later entries overwrite
RECURSIVE EvalLoop(_, _, _, _, _)
EvalLoop(results, index, hypos, k, thr) ==
  IF hypos = << >> THEN results
  ELSE EvalLoop(
         [h \in (DOMAIN results) \cup {Head(hypos)} |->
            IF h = Head(hypos) THEN EvalRecord(index, h, k, thr) ELSE results[h]],
         index, Tail(hypos), k, thr)

evaluate_hypotheses(index, hypos, k, thr) ==
  EvalLoop([h \in {} |-> 0], index, hypos, k, thr)

(***************************************************************************)
(* MultiAgentPipeline and run_experiment: data                             *)
(***************************************************************************)
\* ThreadPoolExecutor(max_workers=3)
MaxWorkers == 3
\* run(): self._get_context(k=3)
RunK == 3

Names == {"a", "b"}
Sources == {"S1", "S2"}
NoDir == [src |-> "none", chunks |-> << >>]

\* chunk texts of the two corpora, in the index's ranking order for the query ""
ChunkTexts == {<<"p">>, <<"q", "r">>}
Corpus(src) ==
  IF src = "S1" THEN << <<"p">>, <<"q", "r">> >>
  ELSE << <<"q", "r">>, <<"p">>, <<"p">>, <<"q", "r">> >>

\* FAISS.from_embeddings(pairs, embedder) over the chunks of pdf_paths
BuildIndex(src) == [src |-> src, chunks |-> Corpus(src)]

\* retriever.get_relevant_documents(""): the k nearest chunks, fewer when the
\* index holds fewer
Retrieve(index, k) ==
  SubSeq(index.chunks, 1, IF k < Len(index.chunks) THEN k ELSE Len(index.chunks))

\* the summarizer with do_sample=False is a function of the chunk
Summarize(chunk) == <<"s">> \o chunk

\* texts the validator and the gap analyst can generate
ValTexts == {<<"1", ")", "7">>, <<"x">>}
GapTexts == {<<"g">>}
\* raw generations of the proposer
RawTokens == {"h", " ", "\n"}

\* "\n\n".join(summaries)
RECURSIVE JoinNoSeparator(_)
JoinNoSeparator(ss) ==
  IF ss = << >> THEN << >> ELSE Head(ss) \o JoinNoSeparator(Tail(ss))

RECURSIVE Join(_)
Join(ss) ==
  IF ss = << >> THEN << >>
  ELSE IF Len(ss) = 1 THEN Head(ss)
  ELSE Head(ss) \o <<"\n", "\n">> \o Join(Tail(ss))

\* text.split("\n")
RECURSIVE SplitLines(_, _)
SplitLines(text, cur) ==
  IF text = << >> THEN <<cur>>
  ELSE IF Head(text) = "\n" THEN <<cur>> \o SplitLines(Tail(text), << >>)
  ELSE SplitLines(Tail(text), Append(cur, Head(text)))

\* h.strip()
RECURSIVE LStrip(_)
LStrip(t) ==
  IF t # << >> /\ IsSpace(Head(t)) THEN LStrip(Tail(t)) ELSE t
RECURSIVE RStrip(_)
RStrip(t) ==
  IF t # << >> /\ IsSpace(t[Len(t)]) THEN RStrip(SubSeq(t, 1, Len(t) - 1)) ELSE t
Strip(t) == RStrip(LStrip(t))

RECURSIVE DropEmpty(_)
DropEmpty(ls) ==
  IF ls = << >> THEN << >>
  ELSE IF Strip(Head(ls)) = << >> THEN DropEmpty(Tail(ls))
  ELSE <<Strip(Head(ls))>> \o DropEmpty(Tail(ls))

\* [h.strip() for h in text.split("\n") if h.strip()]
ProposeParse(raw) == DropEmpty(SplitLines(raw, << >>))

\* s[:m] for m >= 0
TakeFirstOffByOne(s, m) == SubSeq(s, 1, IF m - 1 < Len(s) THEN m - 1 ELSE Len(s))

TakeFirst(s, m) == SubSeq(s, 1, IF m < Len(s) THEN m ELSE Len(s))

\* pipe._get_context = lambda k=retriever_k: MultiAgentPipeline._get_context(pipe, k=k)
\* called with the keyword k given (Some) or omitted (None)
LambdaK(given, default) == IF given = None THEN default ELSE given[1]

\* runtime = time.time() - start
ElapsedSwapped(t0, t1) == t0 - t1

Elapsed(t0, t1) == t1 - t0

(***************************************************************************)
(* State                                                                   *)
(***************************************************************************)
VARIABLES
  pf_pc, pf_validations, pf_scores,      \* a call of parse_feasibility_scores
  ss_pc, ss_scores, ss_result,           \* a call of summarize_scores
  ev_calls, ev_index, ev_hypos, ev_k, ev_thr, ev_results, ev_prev,
                                         \* an evaluator and its calls
  pc,            \* position of the calling thread
  mode,          \* "run": run_experiment; "direct": a method called directly
  runs,          \* experiments started so far
  fs,            \* the index directories on disk: faiss_<name> -> saved index
  exp,           \* arguments of the running run_experiment
  vectorstore,   \* pipe.vectorstore
  loaded,        \* the vectorstore came from FAISS.load_local
  patchedK,      \* default k bound by the lambda put on pipe._get_context
  queries,       \* k of every index query of the current pipeline
  docs,          \* chunks the last query returned
  call,          \* the fan-out method called last
  futures,       \* tasks handed to pipe.executor by the current fan-out
  ci,            \* index of the future whose result is awaited
  collected,     \* results gathered so far, in gathering order
  reordered,     \* some task finished while an earlier one had not
  context, hypotheses, validations, gaps,   \* locals of run()
  hypos, vals, start, runtime, result,      \* locals of run_experiment
  now,           \* the clock read by time.time(), from the experiment's entry
  marks          \* clock readings at the events of the current experiment

pfVars == <<pf_pc, pf_validations, pf_scores>>
ssVars == <<ss_pc, ss_scores, ss_result>>
evVars == <<ev_calls, ev_index, ev_hypos, ev_k, ev_thr, ev_results, ev_prev>>
poolVars == <<call, futures, ci, collected, reordered>>
runVars == <<context, hypotheses, validations, gaps>>
expVars == <<hypos, vals, start, runtime, result>>
pipeVars == <<pc, mode, runs, fs, exp, vectorstore, loaded, patchedK, queries,
              docs, poolVars, runVars, expVars, now, marks>>
vars == <<pfVars, ssVars, evVars, pipeVars>>

NoExp == [name |-> "", sources |-> "", retriever_k |-> 0, max_hypotheses |-> 0]
NoMarks == [entry |-> 0, constructed |-> 0, ctxInvoke |-> 0, gapsDone |-> 0,
            sliced |-> 0, stopped |-> 0]
NoResult == [name |-> "", runtime |-> 0, hypotheses |-> << >>,
             validations |-> << >>, scores |-> << >>, gaps |-> << >>]

PfIdle == pf_pc = "off" /\ pf_validations = << >> /\ pf_scores = << >>
SsIdle == ss_pc = "off" /\ ss_scores = << >> /\ ss_result = summarize_scores(<< >>)
EvIdle ==
  /\ ev_calls = 0 /\ ev_index = << >> /\ ev_hypos = << >> /\ ev_k = 0
  /\ ev_thr = 0 /\ ev_results = << >> /\ ev_prev = << >>
PipeIdle ==
  /\ pc = "off" /\ mode = "off" /\ runs = 0
  /\ fs = [n \in Names |-> NoDir] /\ exp = NoExp
  /\ vectorstore = NoDir /\ loaded = FALSE /\ patchedK = None
  /\ queries = << >> /\ docs = << >>
  /\ call = "none"
  /\ futures = << >> /\ ci = 0 /\ collected = << >> /\ reordered = FALSE
  /\ context = << >> /\ hypotheses = << >> /\ validations = << >> /\ gaps = << >>
  /\ hypos = << >> /\ vals = << >> /\ start = 0 /\ runtime = 0 /\ result = NoResult
  /\ now = 0 /\ marks = NoMarks

(***************************************************************************)
(* The executor's worker threads                                           *)
(***************************************************************************)
Pending(f) == f.status \in {"queued", "running"}
Running == {i \in DOMAIN futures : futures[i].status = "running"}

\* a free worker takes the oldest queued task
StartTask ==
  /\ Cardinality(Running) < MaxWorkers
  /\ \E i \in DOMAIN futures :
       /\ futures[i].status = "queued"
       /\ \A j \in 1..(i - 1) : futures[j].status # "queued"
       /\ futures' = [futures EXCEPT ![i].status = "running"]
  /\ UNCHANGED <<pfVars, ssVars, evVars, pc, mode, runs, fs, exp, vectorstore,
                 loaded, patchedK, queries, docs, call, ci, collected, reordered,
                 runVars, expVars, now, marks>>

\* the task returns: a summary is a function of its chunk, a validation is
\* whatever the sampling LLM generates
FinishTask ==
  /\ \E i \in Running :
       /\ \E t \in (IF futures[i].kind = "summ"
                      THEN {Summarize(futures[i].arg)} ELSE ValTexts) :
            futures' = [futures EXCEPT ![i].status = "done", ![i].result = t]
       /\ reordered' = (reordered \/ \E j \in 1..(i - 1) : Pending(futures[j]))
  /\ UNCHANGED <<pfVars, ssVars, evVars, pc, mode, runs, fs, exp, vectorstore,
                 loaded, patchedK, queries, docs, call, ci, collected,
                 runVars, expVars, now, marks>>

\* the summarizer or the LLM raises inside the task
FailTask ==
  /\ \E i \in Running : futures' = [futures EXCEPT ![i].status = "failed"]
  /\ UNCHANGED <<pfVars, ssVars, evVars, pc, mode, runs, fs, exp, vectorstore,
                 loaded, patchedK, queries, docs, call, ci, collected, reordered,
                 runVars, expVars, now, marks>>

\* f.result() of a finished future
ResultAtReversed(fs_, i) == fs_[Len(fs_) + 1 - i].result

ResultAt(fs_, i) == fs_[i].result

Submit(kind, args) ==
  [i \in 1..Len(args) |->
     [kind |-> kind, arg |-> args[i], status |-> "queued", result |-> << >>]]

\* Executor.map's result iterator, left by an exception: cancel() on every
\* future not yet yielded; only a future that has not started is cancelled
CancelRest(fs_, from) ==
  [i \in DOMAIN fs_ |->
     IF i > from /\ fs_[i].status = "queued"
       THEN [fs_[i] EXCEPT !.status = "cancelled"] ELSE fs_[i]]

(***************************************************************************)
(* MultiAgentPipeline._get_context and _validate (the two fan-outs)        *)
(***************************************************************************)
\* lines 163-176: one query, then one submitted summarization per chunk
GetContextInvoke(k) ==
  /\ queries' = Append(queries, k)
  /\ docs' = Retrieve(vectorstore, k)
  /\ call' = "get_context"
  /\ futures' = Submit("summ", Retrieve(vectorstore, k))
  /\ ci' = 1
  /\ collected' = << >>
  /\ reordered' = FALSE
  /\ pc' = "ctx_collect"
  /\ now' = now + 1

\* line 177: the next f.result() of the list comprehension
CollectSummary ==
  /\ pc = "ctx_collect"
  /\ ci <= Len(futures)
  /\ \/ /\ futures[ci].status = "done"
        /\ collected' = Append(collected, ResultAt(futures, ci))
        /\ ci' = ci + 1
        /\ pc' = pc
     \/ /\ futures[ci].status = "failed"
        /\ pc' = "failed"
        /\ UNCHANGED <<ci, collected>>
  /\ now' = now + 1
  /\ UNCHANGED <<pfVars, ssVars, evVars, mode, runs, fs, exp, vectorstore,
                 loaded, patchedK, queries, docs, call, futures, reordered,
                 runVars, expVars, marks>>

\* line 178
GetContextReturn ==
  /\ pc = "ctx_collect"
  /\ ci > Len(futures)
  /\ context' = Join(collected)
  /\ pc' = IF mode = "run" THEN "propose" ELSE "returned"
  /\ now' = now + 1
  /\ UNCHANGED <<pfVars, ssVars, evVars, mode, runs, fs, exp, vectorstore,
                 loaded, patchedK, queries, docs, poolVars,
                 hypotheses, validations, gaps, expVars, marks>>

\* line 192: executor.map submits one task per hypothesis before it yields
ValidateInvoke(H) ==
  /\ call' = "validate"
  /\ futures' = Submit("val", H)
  /\ ci' = 1
  /\ collected' = << >>
  /\ reordered' = FALSE
  /\ pc' = "val_collect"
  /\ now' = now + 1

\* line 192: list() takes the next result of the map iterator
CollectValidation ==
  /\ pc = "val_collect"
  /\ ci <= Len(futures)
  /\ \/ /\ futures[ci].status = "done"
        /\ collected' = Append(collected, ResultAt(futures, ci))
        /\ ci' = ci + 1
        /\ pc' = pc
        /\ UNCHANGED futures
     \/ /\ futures[ci].status = "failed"
        /\ futures' = CancelRest(futures, ci)
        /\ pc' = "failed"
        /\ UNCHANGED <<ci, collected>>
  /\ now' = now + 1
  /\ UNCHANGED <<pfVars, ssVars, evVars, mode, runs, fs, exp, vectorstore,
                 loaded, patchedK, queries, docs, call, reordered,
                 runVars, expVars, marks>>

ValidateReturn ==
  /\ pc = "val_collect"
  /\ ci > Len(futures)
  /\ validations' = collected
  /\ pc' = IF mode = "run" THEN "gaps" ELSE "returned"
  /\ now' = now + 1
  /\ UNCHANGED <<pfVars, ssVars, evVars, mode, runs, fs, exp, vectorstore,
                 loaded, patchedK, queries, docs, poolVars,
                 context, hypotheses, gaps, expVars, marks>>

\* pipe._get_context(k) and pipe._validate(hypos, context) called directly;
\* the argument k is kept in exp.retriever_k, the list of hypotheses in hypotheses
DirectGetContext ==
  /\ mode = "direct" /\ pc = "idle"
  /\ \E k \in 1..MaxK :
       /\ GetContextInvoke(k)
       /\ exp' = [exp EXCEPT !.retriever_k = k]
  /\ UNCHANGED <<pfVars, ssVars, evVars, mode, runs, fs, vectorstore,
                 loaded, patchedK, runVars, expVars, marks>>

\* the hypothesis lists tried: n different hypotheses, or n times the same one
HypN(i) == [j \in 1..i |-> "h"]
DirectHyps ==
  {[i \in 1..n |-> HypN(i)] : n \in 0..MaxH}
    \cup {[i \in 1..n |-> HypN(1)] : n \in 0..MaxH}

DirectValidate ==
  /\ mode = "direct" /\ pc = "idle"
  /\ \E H \in DirectHyps :
       /\ ValidateInvoke(H)
       /\ hypotheses' = H
  /\ UNCHANGED <<pfVars, ssVars, evVars, mode, runs, fs, exp, vectorstore,
                 loaded, patchedK, queries, docs, context, validations, gaps,
                 expVars, marks>>

(***************************************************************************)
(* run_experiment and MultiAgentPipeline.run                               *)
(***************************************************************************)
\* lines 392-393: entry, start = time.time().  The clock is read relative to
\* the entry of the experiment: only differences of readings reach the result.
StartExperiment ==
  /\ mode = "run" /\ pc \in {"idle", "done", "failed"}
  /\ runs < MaxRuns
  /\ \E n \in Names, s \in Sources, k \in 1..MaxK, m \in 0..MaxHyp :
       exp' = [name |-> n, sources |-> s, retriever_k |-> k, max_hypotheses |-> m]
  /\ runs' = runs + 1
  /\ start' = 0
  /\ marks' = [NoMarks EXCEPT !.entry = 0]
  /\ now' = 1
  /\ pc' = "construct"
  /\ vectorstore' = NoDir /\ loaded' = FALSE /\ patchedK' = None
  /\ queries' = << >> /\ docs' = << >>
  /\ call' = "none"
  /\ futures' = << >> /\ ci' = 0 /\ collected' = << >> /\ reordered' = FALSE
  /\ context' = << >> /\ hypotheses' = << >> /\ validations' = << >> /\ gaps' = << >>
  /\ hypos' = << >> /\ vals' = << >> /\ runtime' = 0 /\ result' = NoResult
  /\ UNCHANGED <<pfVars, ssVars, evVars, mode, fs>>

\* lines 396-398: MultiAgentPipeline(pdf_paths, faiss_path=f"faiss_{name}")
\* (_load_or_build_faiss: load the directory when it exists, else build from
\* pdf_paths and save), then the lambda is put on pipe._get_context
Construct ==
  /\ pc = "construct"
  /\ IF fs[exp.name] # NoDir
       THEN /\ vectorstore' = fs[exp.name]
            /\ loaded' = TRUE
            /\ fs' = fs
       ELSE /\ vectorstore' = BuildIndex(exp.sources)
            /\ loaded' = FALSE
            /\ fs' = [fs EXCEPT ![exp.name] = BuildIndex(exp.sources)]
  /\ patchedK' = Some(exp.retriever_k)
  /\ now' = now + 1
  /\ marks' = [marks EXCEPT !.constructed = now + 1]
  /\ pc' = "run"
  /\ UNCHANGED <<pfVars, ssVars, evVars, mode, runs, exp, queries, docs,
                 poolVars, runVars, expVars>>

\* lines 401, 199-202: pipe.run() calls self._get_context(k=3), which is the lambda
RunGetContext ==
  /\ pc = "run"
  /\ GetContextInvoke(LambdaK(Some(RunK), patchedK[1]))
  /\ marks' = [marks EXCEPT !.ctxInvoke = now]
  /\ UNCHANGED <<pfVars, ssVars, evVars, mode, runs, fs, exp, vectorstore,
                 loaded, patchedK, runVars, expVars>>

\* lines 206, 180-183
Propose ==
  /\ pc = "propose"
  /\ \/ /\ \E raw \in SeqsUpTo(RawTokens, MaxRawLen) :
             hypotheses' = ProposeParse(raw)
        /\ pc' = "validate"
     \/ /\ pc' = "failed"
        /\ UNCHANGED hypotheses
  /\ now' = now + 1
  /\ UNCHANGED <<pfVars, ssVars, evVars, mode, runs, fs, exp, vectorstore,
                 loaded, patchedK, queries, docs, poolVars,
                 context, validations, gaps, expVars, marks>>

\* line 210
ValidateSubmit ==
  /\ pc = "validate"
  /\ ValidateInvoke(hypotheses)
  /\ UNCHANGED <<pfVars, ssVars, evVars, mode, runs, fs, exp, vectorstore,
                 loaded, patchedK, queries, docs, runVars, expVars, marks>>

\* lines 214, 194-196
AnalyzeGaps ==
  /\ pc = "gaps"
  /\ \/ /\ \E g \in GapTexts : gaps' = g
        /\ pc' = "slice"
        /\ marks' = [marks EXCEPT !.gapsDone = now + 1]
     \/ /\ pc' = "failed"
        /\ UNCHANGED <<gaps, marks>>
  /\ now' = now + 1
  /\ UNCHANGED <<pfVars, ssVars, evVars, mode, runs, fs, exp, vectorstore,
                 loaded, patchedK, queries, docs, poolVars,
                 context, hypotheses, validations, expVars>>

\* lines 404-405
Slice ==
  /\ pc = "slice"
  /\ hypos' = TakeFirst(hypotheses, exp.max_hypotheses)
  /\ vals' = TakeFirst(validations, Len(TakeFirst(hypotheses, exp.max_hypotheses)))
  /\ now' = now + 1
  /\ marks' = [marks EXCEPT !.sliced = now + 1]
  /\ pc' = "stop"
  /\ UNCHANGED <<pfVars, ssVars, evVars, mode, runs, fs, exp, vectorstore,
                 loaded, patchedK, queries, docs, poolVars, runVars,
                 start, runtime, result>>

\* line 406
StopClock ==
  /\ pc = "stop"
  /\ runtime' = Elapsed(start, now)
  /\ marks' = [marks EXCEPT !.stopped = now]
  /\ now' = now + 1
  /\ pc' = "parse"
  /\ UNCHANGED <<pfVars, ssVars, evVars, mode, runs, fs, exp, vectorstore,
                 loaded, patchedK, queries, docs, poolVars, runVars,
                 hypos, vals, start, result>>

\* lines 408-416
ParseScores ==
  /\ pc = "parse"
  /\ result' = [name |-> exp.name, runtime |-> runtime, hypotheses |-> hypos,
                validations |-> vals, scores |-> parse_feasibility_scores(vals),
                gaps |-> gaps]
  /\ now' = now + 1
  /\ pc' = "done"
  /\ UNCHANGED <<pfVars, ssVars, evVars, mode, runs, fs, exp, vectorstore,
                 loaded, patchedK, queries, docs, poolVars, runVars,
                 hypos, vals, start, runtime, marks>>

Init ==
  /\ PfIdle /\ SsIdle /\ EvIdle
  /\ pc = "idle" /\ mode = "run" /\ runs = 0
  /\ fs = [n \in Names |-> NoDir] /\ exp = NoExp
  /\ vectorstore = NoDir /\ loaded = FALSE /\ patchedK = None
  /\ queries = << >> /\ docs = << >>
  /\ call = "none"
  /\ futures = << >> /\ ci = 0 /\ collected = << >> /\ reordered = FALSE
  /\ context = << >> /\ hypotheses = << >> /\ validations = << >> /\ gaps = << >>
  /\ hypos = << >> /\ vals = << >> /\ start = 0 /\ runtime = 0 /\ result = NoResult
  /\ now = 0 /\ marks = NoMarks

Next ==
  \/ StartExperiment \/ Construct \/ RunGetContext
  \/ StartTask \/ FinishTask \/ FailTask
  \/ CollectSummary \/ GetContextReturn
  \/ Propose \/ ValidateSubmit
  \/ CollectValidation \/ ValidateReturn
  \/ AnalyzeGaps \/ Slice \/ StopClock \/ ParseScores

Spec == Init /\ [][Next]_vars

\* a constructed pipeline whose two fan-out methods are called directly
Indexes == {[src |-> "direct", chunks |-> c] : c \in SeqsUpTo(ChunkTexts, MaxChunks)}

InitFan ==
  /\ PfIdle /\ SsIdle /\ EvIdle
  /\ pc = "idle" /\ mode = "direct" /\ runs = 0
  /\ fs = [n \in Names |-> NoDir] /\ exp = NoExp
  /\ vectorstore \in Indexes /\ loaded = TRUE /\ patchedK = None
  /\ queries = << >> /\ docs = << >>
  /\ call = "none"
  /\ futures = << >> /\ ci = 0 /\ collected = << >> /\ reordered = FALSE
  /\ context = << >> /\ hypotheses = << >> /\ validations = << >> /\ gaps = << >>
  /\ hypos = << >> /\ vals = << >> /\ start = 0 /\ runtime = 0 /\ result = NoResult
  /\ now = 0 /\ marks = NoMarks

NextFan ==
  \/ DirectGetContext \/ DirectValidate
  \/ StartTask \/ FinishTask \/ FailTask
  \/ CollectSummary \/ GetContextReturn
  \/ CollectValidation \/ ValidateReturn

SpecFan == InitFan /\ [][NextFan]_vars

(***************************************************************************)
(* parse_feasibility_scores called on a list of validation texts           *)
(***************************************************************************)
OtherTexts == {<<"7">>, <<"x">>}
\* the lists of validation texts tried: none, one text, or a text beside a
\* short one
ParseInputsWith(t) ==
  {<< >>, <<t>>} \cup {<<t, u>> : u \in OtherTexts} \cup {<<u, t>> : u \in OtherTexts}

ParseCall ==
  /\ pf_pc = "ready"
  /\ pf_scores' = parse_feasibility_scores(pf_validations)
  /\ pf_pc' = "done"
  /\ UNCHANGED <<pf_validations, ssVars, evVars, pipeVars>>

InitParse ==
  /\ pf_pc = "ready" /\ pf_scores = << >>
  /\ \E m \in 0..MaxTextLen : \E t \in [1..m -> Alphabet] :
       pf_validations \in ParseInputsWith(t)
  /\ SsIdle /\ EvIdle /\ PipeIdle

SpecParse == InitParse /\ [][ParseCall]_vars

(***************************************************************************)
(* summarize_scores called on a list of scores                             *)
(***************************************************************************)
ScoreInputs == SeqsUpTo({None} \cup {Some(v) : v \in 1..10}, MaxScores)

SummarizeCall ==
  /\ ss_pc = "ready"
  /\ ss_result' = summarize_scores(ss_scores)
  /\ ss_pc' = "done"
  /\ UNCHANGED <<ss_scores, pfVars, evVars, pipeVars>>

InitSumm ==
  /\ ss_pc = "ready" /\ ss_scores \in ScoreInputs
  /\ ss_result = summarize_scores(<< >>)
  /\ PfIdle /\ EvIdle /\ PipeIdle

SpecSumm == InitSumm /\ [][SummarizeCall]_vars

(***************************************************************************)
(* MultiAgentEvaluator: repeated evaluate_hypotheses calls on one index    *)
(***************************************************************************)
EvalTexts == {"h1", "h2"}
\* scores and thresholds in tenths
EvalScores == {2, 5, 8}
Thresholds == {3, 5}
EmptyDict == [h \in {} |-> 0]

EvaluateCall ==
  /\ ev_calls >= 0 /\ ev_calls < MaxEvalCalls /\ ev_k > 0
  /\ ev_prev' = ev_results
  /\ ev_results' = evaluate_hypotheses(ev_index, ev_hypos, ev_k, ev_thr)
  /\ ev_calls' = ev_calls + 1
  /\ UNCHANGED <<ev_index, ev_hypos, ev_k, ev_thr, pfVars, ssVars, pipeVars>>

InitEval ==
  /\ ev_calls = 0
  /\ ev_index \in [EvalTexts -> SeqsUpTo(EvalScores, MaxEvalChunks)]
  /\ ev_hypos \in SeqsUpTo(EvalTexts, MaxEvalHyps)
  /\ ev_k \in 1..MaxEvalK
  /\ ev_thr \in Thresholds
  /\ ev_results = EmptyDict /\ ev_prev = EmptyDict
  /\ PfIdle /\ SsIdle /\ PipeIdle

SpecEval == InitEval /\ [][EvaluateCall]_vars

(***************************************************************************)
(* Properties                                                              *)
(***************************************************************************)
DigitChars == <<"1", "2", "3", "4", "5", "6", "7", "8", "9">>
AllSpaces(text, a, b) == \A j \in a..b : IsSpace(text[j])
AllSeps(text, a, b) == \A j \in a..b : IsSep(text[j])

\* the integer v of [1,10] is written at p and no word character touches it
StandaloneAt(text, p, v) ==
  /\ ~WordAt(text, p - 1)
  /\ \/ v \in 1..9 /\ CharIs(text, p, DigitChars[v]) /\ ~WordAt(text, p + 1)
     \/ v = 10 /\ CharIs(text, p, "1") /\ CharIs(text, p + 1, "0")
          /\ ~WordAt(text, p + 2)

\* a "1)" at m, first on its line but for white space, is followed (after
\* white space and, optionally, the label and its separators) by the integer v
MarkerYields(text, m, v) ==
  /\ CharIs(text, m, "1") /\ CharIs(text, m + 1, ")")
  /\ \E s0 \in 1..m : LineStart(text, s0) /\ AllSpaces(text, s0, m - 1)
  /\ \E a \in (m + 2)..(Len(text) + 1) :
       /\ AllSpaces(text, m + 2, a - 1)
       /\ \/ StandaloneAt(text, a, v)
          \/ /\ CharIs(text, a, "R")
             /\ \E b \in (a + 1)..(Len(text) + 1) :
                  AllSeps(text, a + 1, b - 1) /\ StandaloneAt(text, b, v)

ExpectedScore(text) ==
  LET ms == {m \in 1..Len(text) : \E v \in 1..10 : MarkerYields(text, m, v)}
      ps == {q \in 1..Len(text) : \E v \in 1..10 : StandaloneAt(text, q, v)}
  IN  IF ms # {} THEN Some(CHOOSE v \in 1..10 : MarkerYields(text, Min(ms), v))
      ELSE IF ps # {} THEN Some(CHOOSE v \in 1..10 : StandaloneAt(text, Min(ps), v))
      ELSE None

PresentAt(scores) == {i \in 1..Len(scores) : scores[i] # None}
PresentVals(scores) == {scores[i][1] : i \in PresentAt(scores)}
PresentSum(scores) ==
  SeqSum([i \in 1..Len(scores) |-> IF scores[i] = None THEN 0 ELSE scores[i][1]])

\* C6: summarize_scores never raises on scores of [1,10] mixed with None;
\* None is left out (not counted as zero); with no score all four fields are
\* None; with one score s: min = max = mean = s and std = 0; otherwise min and
\* max are the smallest and largest score and min <= mean <= max.
C6_Summarize ==
  ss_pc = "done" =>
    LET n == Cardinality(PresentAt(ss_scores))
        r == ss_result
    IN  /\ r.raised = "no"
        /\ n = 0 => r.min = None /\ r.max = None /\ r.mean = None /\ r.std = None
        /\ n > 0 =>
             /\ r.min = Some(Min(PresentVals(ss_scores)))
             /\ r.max = Some(Max(PresentVals(ss_scores)))
             /\ r.mean # None /\ r.std # None
             /\ r.mean[1].den > 0
             /\ r.mean[1].num * n = PresentSum(ss_scores) * r.mean[1].den
             /\ r.min[1] * r.mean[1].den <= r.mean[1].num
             /\ r.mean[1].num <= r.max[1] * r.mean[1].den
        /\ n = 1 =>
             /\ r.min = r.max
             /\ r.mean[1].num = r.min[1] * r.mean[1].den
             /\ r.std[1].num = 0

\* one score among absent ones
C6_Witness ==
  /\ ss_pc = "done" /\ ss_scores = <<None, Some(7), None>>
  /\ ss_result.min = Some(7) /\ ss_result.std = Some([num |-> 0, den |-> 1])

\* states of the evaluator after a call: a record per hypothesis text with the
\* index's scores in order, their mean and the inclusive threshold test
EvalRecordsRight ==
  /\ DOMAIN ev_results = {ev_hypos[i] : i \in 1..Len(ev_hypos)}
  /\ \A i \in 1..Len(ev_hypos) :
       LET r == ev_results[ev_hypos[i]]
           all == ev_index[ev_hypos[i]]
           n == IF ev_k < Len(all) THEN ev_k ELSE Len(all)
       IN  /\ Len(r.top_k_scores) = n
           /\ \A j \in 1..n : r.top_k_scores[j] = all[j]
           /\ r.avg_similarity.den > 0
           /\ n = 0 => r.avg_similarity.num = 0
           /\ n > 0 => r.avg_similarity.num * n
                         = SeqSum(r.top_k_scores) * r.avg_similarity.den
           /\ r.supported
                <=> (r.avg_similarity.num >= ev_thr * r.avg_similarity.den)

\* C10: every hypothesis given to evaluate_hypotheses gets, under its text,
\* avg_similarity = mean of the scores the index returned (0.0 for none),
\* top_k_scores in the index's order and supported = (avg >= threshold), the
\* boundary included; the call changes neither the index nor the hypotheses,
\* and a repeated call yields the same records.
C10_Evaluate ==
  /\ [](ev_calls >= 1 => EvalRecordsRight)
  /\ [](ev_calls >= 2 => ev_results = ev_prev)
  /\ [][ev_index' = ev_index /\ ev_hypos' = ev_hypos]_vars

\* second call; a hypothesis whose scores 2 and 8 average exactly the
\* threshold 5 and is supported, and one for which the index returns nothing
C10_Witness ==
  /\ ev_calls = 2 /\ ev_thr = 5 /\ ev_k = 2
  /\ ev_hypos = <<"h1", "h2">>
  /\ ev_index["h1"] = <<2, 8>> /\ ev_index["h2"] = << >>
  /\ ev_results["h1"].supported /\ ~ev_results["h2"].supported
  /\ ev_results["h2"].avg_similarity.num = 0

\* C1: the index query of a run_experiment call asks for retriever_k chunks.
C1_QueryUsesRetrieverK ==
  (mode = "run" /\ queries # << >>) =>
    Len(queries) = 1 /\ queries[1] = exp.retriever_k

\* C2: _validate(H, context) returns as many texts as H has hypotheses, the
\* i-th being the output of the task that was given H[i], whatever the order
\* in which the tasks ran and finished on the three workers.
C2_ValidateAligned ==
  (mode = "direct" /\ pc = "returned" /\ call = "validate") =>
    /\ Len(validations) = Len(hypotheses)
    /\ Len(futures) = Len(hypotheses)
    /\ \A i \in 1..Len(hypotheses) :
         /\ futures[i].kind = "val" /\ futures[i].arg = hypotheses[i]
         /\ futures[i].status = "done"
         /\ validations[i] = futures[i].result

\* four hypotheses on three workers; a later task finished before an earlier
\* one, and the outputs differ
C2_Witness ==
  /\ mode = "direct" /\ pc = "returned" /\ call = "validate"
  /\ Len(hypotheses) = 4 /\ hypotheses[1] # hypotheses[2]
  /\ reordered /\ validations[1] # validations[2]

SummaryOf(i) == Summarize(vectorstore.chunks[i])
OffsetOf(i) == SeqSum([j \in 1..(i - 1) |-> Len(SummaryOf(j)) + 2])

\* C3: _get_context(k) issues one index query, for k chunks, submits one
\* summarization per returned chunk (k, or all the index holds when fewer) and
\* returns the summaries in the index's order with a blank line between
\* neighbours, whatever the order the tasks finish in; no chunk gives "".
C3_ContextBuilt ==
  (mode = "direct" /\ pc = "returned" /\ call = "get_context") =>
    LET k == exp.retriever_k
        have == Len(vectorstore.chunks)
        n == IF k < have THEN k ELSE have
    IN  /\ queries = <<k>>
        /\ Len(docs) = n /\ Len(futures) = n
        /\ \A i \in 1..n :
             /\ docs[i] = vectorstore.chunks[i]
             /\ futures[i].kind = "summ" /\ futures[i].arg = docs[i]
        /\ n = 0 => context = << >>
        /\ n > 0 => Len(context) = OffsetOf(n) + Len(SummaryOf(n))
        /\ \A i \in 1..n :
             SubSeq(context, OffsetOf(i) + 1, OffsetOf(i) + Len(SummaryOf(i)))
               = SummaryOf(i)
        /\ \A i \in 1..(n - 1) :
             /\ context[OffsetOf(i + 1) - 1] = "\n"
             /\ context[OffsetOf(i + 1)] = "\n"

\* three chunks asked of a larger index, summaries finished out of order
C3_Witness ==
  /\ mode = "direct" /\ pc = "returned" /\ call = "get_context"
  /\ exp.retriever_k = 2 /\ Len(vectorstore.chunks) = 3 /\ Len(docs) = 2
  /\ docs[1] # docs[2] /\ reordered

\* C4: when a fan-out call has returned or has let a task's error through,
\* none of the tasks it submitted is queued, running or cancelled.
C4_JoinAll ==
  pc \in {"returned", "failed"} =>
    \A i \in 1..Len(futures) : futures[i].status \in {"done", "failed"}

C8_RuntimeSpansRun ==
  pc = "done" => result.runtime = marks.gapsDone - marks.ctxInvoke

\* C8 amended: the runtime is the time from the entry of run_experiment,
\* before the pipeline is constructed and the index loaded or built, to just
\* after the hypotheses and validations are sliced, before the scores are
\* parsed.
C8_RuntimeEntryToSlice ==
  pc = "done" =>
    /\ result.runtime = marks.sliced - marks.entry
    /\ marks.stopped = marks.sliced
    /\ marks.entry < marks.constructed
    /\ marks.constructed <= marks.ctxInvoke
    /\ marks.ctxInvoke < marks.gapsDone
    /\ marks.gapsDone < marks.sliced
    /\ marks.stopped < now

\* a finished experiment that built its index: the runtime exceeds the span
\* of run()
C8_Witness ==
  /\ pc = "done" /\ ~loaded
  /\ result.runtime > marks.gapsDone - marks.ctxInvoke

\* C9: no two run_experiment calls share index state; in particular, also
\* when a name is used again with other sources, the index a run queries was
\* built from that run's own sources.
C9_IndexFromOwnSources ==
  (mode = "run" /\ queries # << >>) => vectorstore.src = exp.sources

====
